---- MODULE Spec2Model ----
(***************************************************************************)
(* Model of download_from_drive.py: main, get_credentials,                 *)
(* search_and_download, list_folder_files and download_file.               *)
(*                                                                         *)
(* One run of the script is one behaviour.  The command line and the       *)
(* destination file exist before the run and are                           *)
(* chosen in Init; what os.environ, the Drive service and the file system  *)
(* answer is chosen, call by call, by the action that makes the call.      *)
(***************************************************************************)
EXTENDS Integers, Sequences, FiniteSets, TLC

(* ------------------------------ bounds --------------------------------- *)
\* largest --max-attempts on the command line (the smallest is MinAttempts)
MaxAttempts == 3
\* largest size, in bytes, of a remote file
MaxSize == 3
\* bytes the downloader asks for per next_chunk call (scaled down)
ChunkSize == 2
MinAttempts == 0 - 1

(* ----------------------------- value sets ------------------------------ *)
\* None (option absent / variable unset), the empty string, a non-empty value
NONE == "None"
OptValues == {NONE, "", "v"}

\* --retry-delay is type=int with no range check: a negative, zero, positive
RetryDelays == {0 - 1, 0, 2}

\* the three ways parse_arguments ends
ArgvKinds == {"ok", "usage_error", "help"}

\* ids of the files of the folder that carry the searched name
FileIds == {1, 2}

\* the destination before the run: absent, or holding earlier content
NoFile == [exists |-> FALSE, data |-> << >>]
OldFile == [exists |-> TRUE, data |-> <<99, 98>>]

VARIABLES
    argv_kind,       \* how the command line parses
    args,            \* argparse namespace: credentials_base64, folder_id,
                     \*   max_attempts, retry_delay, verbose
    pc,              \* the statement the run is at
    credentials_base64, \* main's local, line 222: the argument or else
                     \*   what os.environ.get('DRIVE_CREDENTIALS') gave
    folder_id,       \* main's local, line 229, likewise
    attempt,         \* loop variable of search_and_download (0-based)
    files,           \* result of the last name-scoped search
    file_id,         \* files[0]['id'] of the match
    remote,          \* byte content of the file being streamed
    fh,              \* the BytesIO buffer the downloader fills
    done,            \* download_file's local
    dest,            \* the file at output_path
    dest0,           \* the file at output_path before the run
    success,         \* what search_and_download returned: "unset", "True", "False"
    exit_status,     \* process exit status, -1 while running
    exit_via,        \* "running", "sys.exit", "argparse", "exception"
    events,          \* calls made so far: "search", "list", "sleep",
                     \*   "sleep_error", "download"
    sleeps,          \* durations of the completed time.sleep calls
    outs,            \* outcome of each search: "empty", "fail", "match"
    chunks,          \* chunks next_chunk has delivered, in order
    progress_seq,    \* status.progress() after each chunk, as <<num, den>>
    stream_error,    \* a next_chunk call (or the stream set-up) raised
    opens,           \* number of open(output_path, 'wb') calls that succeeded
    writes,          \* number of f.write calls made
    message          \* last failure reported: [kind, attempts]

vars == << argv_kind, args, pc, credentials_base64, folder_id,
           attempt, files, file_id, remote, fh, done, dest, dest0, success,
           exit_status, exit_via, events, sleeps, outs, chunks, progress_seq,
           stream_error, opens, writes, message >>

(* ------------------------------ helpers -------------------------------- *)
\* Python truthiness of an optional string
TruthyNotNone(x) == x # NONE
Truthy(x) == x \notin {NONE, ""}

\* Python's  a or b
PyOr(a, b) == IF Truthy(a) THEN a ELSE b

Min(a, b) == IF a <= b THEN a ELSE b

\* the bytes of remote file id with the given size: all distinct
Content(id, size) == [i \in 1..size |-> 10 * id + i]

RECURSIVE Flatten(_)
Flatten(ss) == IF ss = << >> THEN << >> ELSE Head(ss) \o Flatten(Tail(ss))

RECURSIVE Count(_, _)
Count(s, x) ==
    IF s = << >> THEN 0
    ELSE (IF Head(s) = x THEN 1 ELSE 0) + Count(Tail(s), x)

RECURSIVE Filter(_, _)
Filter(s, keep) ==
    IF s = << >> THEN << >>
    ELSE (IF Head(s) \in keep THEN << Head(s) >> ELSE << >>)
             \o Filter(Tail(s), keep)

NoMessage == [kind |-> "none", attempts |-> 0]

(* ------------------------------- Init ---------------------------------- *)
DefaultArgs ==
    [credentials_base64 |-> NONE, folder_id |-> NONE, max_attempts |-> 3,
     retry_delay |-> 5, verbose |-> FALSE]

ArgsSet ==
    [credentials_base64 : OptValues, folder_id : OptValues,
     max_attempts : MinAttempts..MaxAttempts, retry_delay : RetryDelays,
     verbose : BOOLEAN]

Init ==
    /\ argv_kind \in ArgvKinds
    /\ args \in (IF argv_kind = "ok" THEN ArgsSet ELSE {DefaultArgs})
    /\ pc = "parse_arguments"
    /\ credentials_base64 = NONE
    /\ folder_id = NONE
    /\ attempt = 0
    /\ files = << >>
    /\ file_id = 0
    /\ remote = << >>
    /\ fh = << >>
    /\ done = FALSE
    /\ dest0 \in {NoFile, OldFile}
    /\ dest = dest0
    /\ success = "unset"
    /\ exit_status = 0 - 1
    /\ exit_via = "running"
    /\ events = << >>
    /\ sleeps = << >>
    /\ outs = << >>
    /\ chunks = << >>
    /\ progress_seq = << >>
    /\ stream_error = FALSE
    /\ opens = 0
    /\ writes = 0
    /\ message = NoMessage

(* ------------------------ process termination -------------------------- *)
\* sys.exit(code) called by the script itself
SysExit(code) ==
    /\ exit_status' = code
    /\ exit_via' = "sys.exit"
    /\ pc' = "done"

\* an exception nothing catches: the interpreter prints the traceback and
\* the process ends with status 1
Uncaught ==
    /\ exit_status' = 1
    /\ exit_via' = "exception"
    /\ pc' = "done"

\* sys.exit(0 if success else 1), line 253
ExitCodeAlwaysZero(s) == 0
ExitCode(s) == IF s = "True" THEN 0 ELSE 1

(* ------------------------------- main ---------------------------------- *)
\* line 219: argparse ends the process itself on --help (status 0) and on a
\* command line it rejects (status 2: --filename missing, a non-integer
\* --max-attempts, an unknown option)
ParseArguments ==
    /\ pc = "parse_arguments"
    /\ IF argv_kind = "ok"
         THEN /\ pc' = "check_credentials"
              /\ UNCHANGED << exit_status, exit_via >>
         ELSE /\ exit_status' = (IF argv_kind = "help" THEN 0 ELSE 2)
              /\ exit_via' = "argparse"
              /\ pc' = "done"
    /\ UNCHANGED << argv_kind, args, credentials_base64, folder_id,
                    attempt, files, file_id, remote, fh, done, dest, dest0,
                    success, events, sleeps, outs, chunks, progress_seq,
                    stream_error, opens, writes, message >>

\* lines 222-226
CheckCredentials ==
    /\ pc = "check_credentials"
    /\ \E env \in OptValues :
         credentials_base64' = PyOr(args.credentials_base64, env)
    /\ IF Truthy(credentials_base64')
         THEN /\ pc' = "check_folder_id"
              /\ UNCHANGED << exit_status, exit_via, message >>
         ELSE /\ SysExit(1)
              /\ message' = [kind |-> "ConfigError", attempts |-> 0]
    /\ UNCHANGED << argv_kind, args, folder_id, attempt, files,
                    file_id, remote, fh, done, dest, dest0, success, events,
                    sleeps, outs, chunks, progress_seq, stream_error, opens,
                    writes >>

\* lines 229-236
CheckFolderId ==
    /\ pc = "check_folder_id"
    /\ \E env \in OptValues : folder_id' = PyOr(args.folder_id, env)
    /\ IF Truthy(folder_id')
         THEN /\ pc' = "get_credentials"
              /\ UNCHANGED << exit_status, exit_via, message >>
         ELSE /\ SysExit(1)
              /\ message' = [kind |-> "ConfigError", attempts |-> 0]
    /\ UNCHANGED << argv_kind, args, credentials_base64, attempt,
                    files, file_id, remote, fh, done, dest, dest0, success,
                    events, sleeps, outs, chunks, progress_seq, stream_error,
                    opens, writes >>

\* lines 86-100 and 239: decoding either works or raises; get_credentials
\* catches every Exception and calls sys.exit(1)
GetCredentials ==
    /\ pc = "get_credentials"
    /\ \E ok \in BOOLEAN :
         IF ok
           THEN /\ pc' = "build"
                /\ UNCHANGED << exit_status, exit_via, message >>
           ELSE /\ SysExit(1)
                /\ message' = [kind |-> "CredentialsError", attempts |-> 0]
    /\ UNCHANGED << argv_kind, args, credentials_base64, folder_id,
                    attempt, files, file_id, remote, fh, done, dest, dest0,
                    success, events, sleeps, outs, chunks, progress_seq,
                    stream_error, opens, writes >>

\* line 240: build('drive', 'v3', ...) is called outside any try; when it
\* raises, nothing in main catches the exception
BuildService ==
    /\ pc = "build"
    /\ \E ok \in BOOLEAN :
         IF ok
           THEN /\ pc' = "for"
                /\ UNCHANGED << exit_status, exit_via >>
           ELSE Uncaught
    /\ UNCHANGED << argv_kind, args, credentials_base64, folder_id,
                    attempt, files, file_id, remote, fh, done, dest, dest0,
                    success, events, sleeps, outs, chunks, progress_seq,
                    stream_error, opens, writes, message >>

\* line 253
Exit ==
    /\ pc = "exit"
    /\ SysExit(ExitCode(success))
    /\ UNCHANGED << argv_kind, args, credentials_base64, folder_id,
                    attempt, files, file_id, remote, fh, done, dest, dest0,
                    success, events, sleeps, outs, chunks, progress_seq,
                    stream_error, opens, writes, message >>

(* ------------------------ search_and_download -------------------------- *)
\* what a name-scoped search may return when it finds something: a non-empty
\* sequence of distinct file ids, in the order the remote index gives them
MatchResults ==
    { fs \in UNION { [1..n -> FileIds] : n \in 1..Cardinality(FileIds) } :
        \A i, j \in DOMAIN fs : i # j => fs[i] # fs[j] }

\* line 204: the else-branch sleeps only when another attempt follows
ElseWaitsAlways(a, n) == TRUE
ElseWaits(a, n) == a < n - 1

\* line 209: so does the except-branch
ExceptWaitsNever(a, n) == FALSE
ExceptWaits(a, n) == a < n - 1

\* lines 206 and 211: the duration handed to time.sleep
SleepDurationGrowing(d) == d * (attempt + 1)
SleepDuration(d) == d

\* line 165: attempt is in range(max_attempts)
InRangeAtLeastOnce(a, n) == a = 0 \/ a < n
InRange(a, n) == a < n

\* lines 181-183: the file taken from a non-empty result
SelectedLast(fs) == fs[Len(fs)]
Selected(fs) == fs[1]

\* the loop goes on to its next iteration
NextIterationSameAttempt ==
    /\ attempt' = attempt
    /\ pc' = "for"
NextIteration ==
    /\ attempt' = attempt + 1
    /\ pc' = "for"

\* lines 204-206, up to the call of time.sleep
ElseTail ==
    IF ElseWaits(attempt, args.max_attempts)
      THEN /\ pc' = "sleep_else"
           /\ attempt' = attempt
      ELSE NextIteration

\* lines 207-211, up to the call of time.sleep
ExceptTail ==
    IF ExceptWaits(attempt, args.max_attempts)
      THEN /\ pc' = "sleep_except"
           /\ attempt' = attempt
      ELSE NextIteration

\* lines 193-197: search_and_download returns what download_file returned
ReturnedRetry(b) ==
    IF b
      THEN /\ success' = "True"
           /\ message' = [kind |-> "Success", attempts |-> 0]
           /\ pc' = "exit"
           /\ attempt' = attempt
      ELSE /\ success' = success
           /\ message' = [kind |-> "DownloadError", attempts |-> 0]
           /\ NextIteration
Returned(b) ==
    /\ success' = (IF b THEN "True" ELSE "False")
    /\ message' = [kind |-> (IF b THEN "Success" ELSE "DownloadError"),
                   attempts |-> 0]
    /\ pc' = "exit"
    /\ attempt' = attempt

\* line 165, and lines 213-214 once range(max_attempts) is used up
ForAttempt ==
    /\ pc = "for"
    /\ IF InRange(attempt, args.max_attempts)
         THEN /\ pc' = "search"
              /\ UNCHANGED << success, message >>
         ELSE /\ success' = "False"
              /\ message' = [kind |-> "NotFound",
                             attempts |-> args.max_attempts]
              /\ pc' = "exit"
    /\ UNCHANGED << argv_kind, args, credentials_base64, folder_id,
                    attempt, files, file_id, remote, fh, done, dest, dest0,
                    exit_status, exit_via, events, sleeps, outs, chunks,
                    progress_seq, stream_error, opens, writes >>

\* lines 169-199 and 207-208: one files().list(...).execute() and the branch
\* taken on its outcome
Search ==
    /\ pc = "search"
    /\ events' = Append(events, "search")
    /\ \/ \E fs \in MatchResults :              \* lines 180-190
            /\ outs' = Append(outs, "match")
            /\ files' = fs
            /\ file_id' = Selected(fs)
            /\ pc' = "download_file"
            /\ attempt' = attempt
       \/ /\ outs' = Append(outs, "empty")      \* lines 198-202
          /\ files' = << >>
          /\ file_id' = file_id
          /\ IF args.verbose
               THEN /\ pc' = "list_folder_files"
                    /\ attempt' = attempt
               ELSE ElseTail
       \/ /\ outs' = Append(outs, "fail")       \* lines 207-208
          /\ UNCHANGED << files, file_id >>
          /\ ExceptTail
    /\ UNCHANGED << argv_kind, args, credentials_base64, folder_id,
                    remote, fh, done, dest, dest0, success, exit_status,
                    exit_via, sleeps, chunks, progress_seq, stream_error,
                    opens, writes, message >>

\* line 202 on to line 204: the value list_folder_files returns is discarded
\* and the else-branch goes on as it does without the listing
AfterListingNoWait(ok) == NextIteration
AfterListing(ok) == ElseTail

\* lines 103-131, called at line 202: the listing returns the folder's files
\* or, when the call raises, []
ListFolderFiles ==
    /\ pc = "list_folder_files"
    /\ events' = Append(events, "list")
    /\ \E ok \in BOOLEAN : AfterListing(ok)
    /\ UNCHANGED << argv_kind, args, credentials_base64, folder_id,
                    files, file_id, remote, fh, done, dest, dest0, success,
                    exit_status, exit_via, sleeps, outs, chunks, progress_seq,
                    stream_error, opens, writes, message >>

\* line 206: time.sleep raises ValueError for a negative duration; the call
\* is inside the try, so the handler of lines 207-211 runs next
SleepElse ==
    /\ pc = "sleep_else"
    /\ IF args.retry_delay < 0
         THEN /\ events' = Append(events, "sleep_error")
              /\ sleeps' = sleeps
              /\ ExceptTail
         ELSE /\ events' = Append(events, "sleep")
              /\ sleeps' = Append(sleeps, SleepDuration(args.retry_delay))
              /\ NextIteration
    /\ UNCHANGED << argv_kind, args, credentials_base64, folder_id,
                    files, file_id, remote, fh, done, dest, dest0, success,
                    exit_status, exit_via, outs, chunks, progress_seq,
                    stream_error, opens, writes, message >>

\* line 211: the same call inside the handler; a ValueError raised here is
\* caught by nothing in search_and_download or main
SleepExcept ==
    /\ pc = "sleep_except"
    /\ IF args.retry_delay < 0
         THEN /\ events' = Append(events, "sleep_error")
              /\ sleeps' = sleeps
              /\ attempt' = attempt
              /\ Uncaught
         ELSE /\ events' = Append(events, "sleep")
              /\ sleeps' = Append(sleeps, SleepDuration(args.retry_delay))
              /\ NextIteration
              /\ UNCHANGED << exit_status, exit_via >>
    /\ UNCHANGED << argv_kind, args, credentials_base64, folder_id,
                    files, file_id, remote, fh, done, dest, dest0, success,
                    outs, chunks, progress_seq, stream_error, opens, writes,
                    message >>

(* ---------------------------- download_file ---------------------------- *)
\* MediaDownloadProgress.progress() as line 146 reads it: bytes received
\* over total size, and 0.0 when the total size is zero
ProgressRemaining(received, total) ==
    IF total # 0 THEN << total - received, total >> ELSE << 0, 1 >>
Progress(received, total) ==
    IF total # 0 THEN << received, total >> ELSE << 0, 1 >>

\* the byte range one next_chunk call brings
NextRange(received, content) ==
    SubSeq(content, received + 1, Min(received + ChunkSize, Len(content)))

\* line 151: f.write(fh.getvalue())
WrittenDataLastChunk(buf) ==
    IF chunks = << >> THEN << >> ELSE chunks[Len(chunks)]
WrittenData(buf) == buf

\* lines 144-150: the loop is left for the write only once done is set
AfterChunkFirst(d) == "open_output"
AfterChunk(d) == IF d THEN "open_output" ELSE "next_chunk"

\* lines 137-143: the request and the downloader are set up
DownloadFile ==
    /\ pc = "download_file"
    /\ events' = Append(events, "download")
    /\ fh' = << >>
    /\ done' = FALSE
    /\ \E size \in 0..MaxSize : remote' = Content(file_id, size)
    /\ \/ /\ pc' = "next_chunk"
          /\ UNCHANGED << stream_error, success, message, attempt >>
       \/ /\ stream_error' = TRUE               \* lines 155-157
          /\ Returned(FALSE)
    /\ UNCHANGED << argv_kind, args, credentials_base64, folder_id,
                    files, file_id, dest, dest0, exit_status, exit_via,
                    sleeps, outs, chunks, progress_seq, opens, writes >>

\* lines 144-147: one iteration of  while not done
NextChunk ==
    /\ pc = "next_chunk"
    /\ ~done
    /\ \/ LET c == NextRange(Len(fh), remote) IN
            /\ fh' = fh \o c
            /\ chunks' = Append(chunks, c)
            /\ done' = (Len(fh') = Len(remote))
            /\ progress_seq' =
                   Append(progress_seq, Progress(Len(fh'), Len(remote)))
            /\ pc' = AfterChunk(done')
            /\ UNCHANGED << stream_error, success, message, attempt >>
       \/ /\ stream_error' = TRUE               \* lines 155-157
          /\ Returned(FALSE)
          /\ UNCHANGED << fh, chunks, done, progress_seq >>
    /\ UNCHANGED << argv_kind, args, credentials_base64, folder_id,
                    files, file_id, remote, dest, dest0, exit_status,
                    exit_via, events, sleeps, outs, opens, writes >>

\* line 150: open(output_path, 'wb') creates the file or truncates it
OpenOutput ==
    /\ pc = "open_output"
    /\ \/ /\ dest' = [exists |-> TRUE, data |-> << >>]
          /\ opens' = opens + 1
          /\ pc' = "write_output"
          /\ UNCHANGED << success, message, attempt >>
       \/ /\ Returned(FALSE)                     \* lines 155-157
          /\ UNCHANGED << dest, opens >>
    /\ UNCHANGED << argv_kind, args, credentials_base64, folder_id,
                    files, file_id, remote, fh, done, dest0, exit_status,
                    exit_via, events, sleeps, outs, chunks, progress_seq,
                    stream_error, writes >>

\* lines 151-157: the write and the close of the with-block; when either
\* raises, some prefix of the data has reached the file
WriteOutput ==
    /\ pc = "write_output"
    /\ writes' = writes + 1
    /\ \/ /\ dest' = [exists |-> TRUE, data |-> WrittenData(fh)]
          /\ Returned(TRUE)
       \/ /\ \E n \in 0..Len(fh) :
               dest' = [exists |-> TRUE, data |-> SubSeq(fh, 1, n)]
          /\ Returned(FALSE)
    /\ UNCHANGED << argv_kind, args, credentials_base64, folder_id,
                    files, file_id, remote, fh, done, dest0, exit_status,
                    exit_via, events, sleeps, outs, chunks, progress_seq,
                    stream_error, opens >>

(* ------------------------------ the run -------------------------------- *)
Next ==
    \/ ParseArguments
    \/ CheckCredentials
    \/ CheckFolderId
    \/ GetCredentials
    \/ BuildService
    \/ ForAttempt
    \/ Search
    \/ ListFolderFiles
    \/ SleepElse
    \/ SleepExcept
    \/ DownloadFile
    \/ NextChunk
    \/ OpenOutput
    \/ WriteOutput
    \/ Exit

Spec == Init /\ [][Next]_vars

\* the interpreter keeps executing the one thread of the script: a step that
\* can be taken is taken (each remote call returns or raises)
FairSpec == Spec /\ WF_vars(Next)

(* --------------------- the retry loop as a function -------------------- *)
\* lines 165-211 read as a function of the outcomes the searches have, one
\* per attempt from attempt a on: the searches, sleeps and download the loop
\* makes, in order (for a retry_delay that time.sleep accepts)
RECURSIVE LoopTrace(_, _, _)
LoopTrace(o, a, n) ==
    IF a >= n \/ o = << >> THEN << >>
    ELSE IF Head(o) = "match" THEN << "search", "download" >>
    ELSE IF Head(o) = "empty"
      THEN << "search" >>
             \o (IF ElseWaits(a, n) THEN << "sleep" >> ELSE << >>)
             \o LoopTrace(Tail(o), a + 1, n)
      ELSE << "search" >>
             \o (IF ExceptWaits(a, n) THEN << "sleep" >> ELSE << >>)
             \o LoopTrace(Tail(o), a + 1, n)

(* ----------------------------- observations ---------------------------- *)
Range(s) == { s[i] : i \in DOMAIN s }

\* the searches and sleeps of the run, in order
SearchSleep == Filter(events, {"search", "sleep", "sleep_error"})

\* the searches, sleeps and download of the run, in order
Control == Filter(events, {"search", "sleep", "sleep_error", "download"})

\* search, sleep, search, ..., search: k searches with a sleep between each
Alternating(k) ==
    [i \in 1..(2 * k - 1) |-> IF i % 2 = 1 THEN "search" ELSE "sleep"]

IsPrefix(s, t) == Len(s) <= Len(t) /\ s = SubSeq(t, 1, Len(s))

\* search_and_download has returned
Finished == pc \in {"exit", "done"} /\ success # "unset"

\* the policy is one the data model admits: a non-negative delay
ValidDelay == args.retry_delay >= 0

\* outcome sequences that differ from o only by exchanging empty results and
\* failed queries
Swaps(o) ==
    { o2 \in [1..Len(o) -> {"empty", "fail", "match"}] :
        \A i \in 1..Len(o) : (o2[i] = "match") <=> (o[i] = "match") }

(* -------------------------------- C1 ----------------------------------- *)
\* C1: for max_attempts = N >= 1 (and a non-negative delay), as long as no
\* search has matched, the searches and sleeps made so far are a prefix of
\* search, sleep, ..., search with N searches; once search_and_download has
\* returned they are exactly that (N searches, N-1 sleeps, the last call a
\* search) and the result is failure, reported as not found after N attempts.
C1_ExhaustedQueriesAndSleeps ==
    (args.max_attempts >= 1 /\ ValidDelay /\ "match" \notin Range(outs)) =>
        /\ IsPrefix(SearchSleep, Alternating(args.max_attempts))
        /\ Finished =>
             /\ SearchSleep = Alternating(args.max_attempts)
             /\ Count(events, "search") = args.max_attempts
             /\ Len(sleeps) = args.max_attempts - 1
             /\ success = "False"
             /\ message = [kind |-> "NotFound",
                           attempts |-> args.max_attempts]

\* a finished run of three attempts, one empty and one failed among them
C1_Witness ==
    /\ Finished
    /\ args.max_attempts = 3
    /\ ValidDelay
    /\ "match" \notin Range(outs)
    /\ "empty" \in Range(outs)
    /\ "fail" \in Range(outs)
    /\ Len(sleeps) = 2

(* -------------------------------- C2 ----------------------------------- *)
\* C2: from the moment a search matches, at attempt k, and in every later
\* state of the run, exactly k searches have been made (k <= N) with k-1
\* sleeps, one between each two searches: nothing follows the k-th search.
C2_MatchStopsTheLoop ==
    (ValidDelay /\ "match" \in Range(outs)) =>
        LET k == CHOOSE i \in 1..Len(outs) :
                     outs[i] = "match" /\ \A j \in 1..(i - 1) : outs[j] # "match"
        IN /\ k <= args.max_attempts
           /\ Len(outs) = k
           /\ SearchSleep = Alternating(k)
           /\ Count(events, "search") = k
           /\ Len(sleeps) = k - 1

\* a finished run of three allowed attempts whose second search matched and
\* whose download then failed: attempts remained, and none was used
C2_Witness ==
    /\ pc = "done"
    /\ ValidDelay
    /\ args.max_attempts = 3
    /\ outs = << "fail", "match" >>
    /\ success = "False"

(* -------------------------------- C3 ----------------------------------- *)
\* C3: when search_and_download has returned (non-negative delay), the
\* searches, sleeps and download it made are what the loop makes for every
\* outcome sequence obtained from the run's own by exchanging empty results
\* and failed queries; every sleep lasted retry_delay; the loop ended at a
\* match or after all max_attempts attempts, never earlier; and without a
\* match the result is failure whichever misses were failures.
C3_FailureEqualsEmpty ==
    (Finished /\ ValidDelay) =>
        /\ \A o2 \in Swaps(outs) :
               Control = LoopTrace(o2, 0, args.max_attempts)
        /\ \A i \in 1..Len(sleeps) : sleeps[i] = args.retry_delay
        /\ \/ "match" \in Range(outs)
           \/ Len(outs) = args.max_attempts
           \/ args.max_attempts <= 0 /\ outs = << >>
        /\ "match" \notin Range(outs) => success = "False"

\* a finished run in which a failed query was followed by a sleep and a
\* further search
C3_Witness ==
    /\ Finished
    /\ ValidDelay
    /\ Len(outs) = 3
    /\ outs[1] = "fail"
    /\ outs[2] = "empty"
    /\ Len(sleeps) = 2

(* -------------------------------- C4 ----------------------------------- *)
\* the file was located and its download, write included, succeeded
LocatedAndDownloaded ==
    /\ "match" \in Range(outs)
    /\ done
    /\ writes = 1
    /\ message.kind = "Success"

\* C4 as stated: a finished process has status 0 exactly when the file was
\* located and downloaded, and status 1 in every other run.
C4_Original ==
    pc = "done" =>
        /\ exit_status \in {0, 1}
        /\ (exit_status = 0) <=> LocatedAndDownloaded

\* C4 amended: in every run whose command line argparse accepts, the exit
\* status is 0 exactly when the file was located and downloaded and 1
\* otherwise (also when an exception ends the run); argparse itself ends the
\* process with 0 after --help and with 2 on a command line it rejects.
C4_ExitStatus ==
    pc = "done" =>
        /\ argv_kind = "ok" =>
             /\ exit_status \in {0, 1}
             /\ (exit_status = 0) <=> LocatedAndDownloaded
        /\ argv_kind = "help" => exit_status = 0 /\ events = << >>
        /\ argv_kind = "usage_error" => exit_status = 2 /\ events = << >>

\* a run that found the file on a retry, wrote it and exited
C4_Witness ==
    /\ pc = "done"
    /\ exit_via = "sys.exit"
    /\ LocatedAndDownloaded
    /\ Len(outs) = 2
    /\ dest.data = remote

(* -------------------------------- C5 ----------------------------------- *)
\* C5: whenever download_file has reported failure, the destination is as
\* it was before the call, absent or with its earlier content.
C5_FailureLeavesDestination ==
    message.kind = "DownloadError" => dest = dest0

(* -------------------------------- C6 ----------------------------------- *)
\* Idle -> Streaming -> {Complete, Failed}, read off download_file's state
DownloadState ==
    IF "download" \notin Range(events) THEN "Idle"
    ELSE IF stream_error THEN "Failed"
    ELSE IF done THEN "Complete"
    ELSE "Streaming"

\* C6: the output file is opened and written at most once; it is opened,
\* written or changed only in state Complete, when the stream has delivered
\* the whole content; in state Failed nothing was opened or written and the
\* destination is as before the run, so absent if it was absent.
C6_WriteOnlyAfterCompletion ==
    /\ opens <= 1
    /\ writes <= opens
    /\ (opens > 0 \/ dest # dest0 \/ pc \in {"open_output", "write_output"}) =>
           /\ DownloadState = "Complete"
           /\ fh = remote
    /\ DownloadState = "Failed" =>
           /\ opens = 0
           /\ writes = 0
           /\ dest = dest0
    /\ DownloadState \in {"Idle", "Streaming"} => dest = dest0

\* a stream that raised on its second chunk, with no file at the destination
C6_Witness ==
    /\ pc = "done"
    /\ DownloadState = "Failed"
    /\ Len(chunks) = 1
    /\ ~dest0.exists
    /\ ~dest.exists

(* -------------------------------- C7 ----------------------------------- *)
\* fractions << num, den >> with den > 0
Leq(p, q) == p[1] * q[2] <= q[1] * p[2]
InUnit(p) == 0 <= p[1] /\ p[1] <= p[2] /\ p[2] > 0
IsOne(p) == p[1] = p[2]

ProgressMonotone ==
    /\ \A i \in 1..Len(progress_seq) : InUnit(progress_seq[i])
    /\ \A i \in 1..(Len(progress_seq) - 1) :
           Leq(progress_seq[i], progress_seq[i + 1])

\* C7 as stated: the fractions are non-decreasing, within [0,1], and the
\* last one of a successful download is 1.
C7_Original ==
    /\ ProgressMonotone
    /\ message.kind = "Success" =>
           /\ progress_seq # << >>
           /\ IsOne(progress_seq[Len(progress_seq)])

\* C7 amended: the fractions are non-decreasing and within [0,1]; the last
\* one of a successful download of a non-empty file is 1, and a successful
\* download of a zero-byte file surfaces the single fraction 0.
C7_Progress ==
    /\ ProgressMonotone
    /\ (message.kind = "Success" /\ remote # << >>) =>
           /\ progress_seq # << >>
           /\ IsOne(progress_seq[Len(progress_seq)])
    /\ (message.kind = "Success" /\ remote = << >>) =>
           progress_seq = << << 0, 1 >> >>

\* a successful download that took two chunks
C7_Witness ==
    /\ message.kind = "Success"
    /\ Len(progress_seq) >= 2
    /\ ~IsOne(progress_seq[1])

(* -------------------------------- C8 ----------------------------------- *)
\* C8: after a successful run the destination holds exactly the chunks the
\* stream delivered, concatenated in order, and that is the whole content
\* of the file the search resolved.
C8_FullContent ==
    (pc = "done" /\ exit_status = 0 /\ argv_kind = "ok") =>
        /\ dest.exists
        /\ dest.data = Flatten(chunks)
        /\ dest.data = remote
        /\ \E size \in 0..MaxSize : dest.data = Content(files[1], size)

\* a successful run whose file came in more than one chunk
C8_Witness ==
    /\ pc = "done"
    /\ exit_status = 0
    /\ Len(chunks) >= 2
    /\ Len(dest.data) > Len(chunks[1])

(* -------------------------------- C9 ----------------------------------- *)
\* a configuration value that is not given: unset or empty
Absent(x) == x = NONE \/ x = ""

\* line 222 or line 229 has been executed and found neither the argument
\* nor the environment variable
ConfigMissing ==
    /\ argv_kind = "ok"
    /\ \/ /\ pc \notin {"parse_arguments", "check_credentials"}
          /\ Absent(credentials_base64)
       \/ /\ pc \notin {"parse_arguments", "check_credentials",
                         "check_folder_id"}
          /\ Absent(folder_id)
          /\ ~Absent(credentials_base64)

\* C9: when the credentials or the folder id come neither from the argument
\* nor from the environment, the run never gets past the two checks: no
\* search, listing, sleep, download or write is made, and the process ends
\* by sys.exit(1).
C9_MissingConfigIsFatal ==
    ConfigMissing =>
        /\ pc = "done"
        /\ events = << >>
        /\ sleeps = << >>
        /\ outs = << >>
        /\ opens = 0
        /\ writes = 0
        /\ dest = dest0
        /\ pc = "done" =>
             /\ exit_status = 1
             /\ exit_via = "sys.exit"
             /\ message.kind = "ConfigError"

\* credentials present, the folder id empty on the command line and empty
\* in the environment, and the process gone
C9_Witness ==
    /\ pc = "done"
    /\ credentials_base64 = "v"
    /\ args.folder_id = ""
    /\ folder_id = ""
    /\ exit_status = 1

(* -------------------------------- C10 ---------------------------------- *)
\* C10: a finished process ended through an exit call with status 0 or 1,
\* never through an exception that nothing caught.
C10_NoExceptionEscapes ==
    pc = "done" => exit_via # "exception"

(* -------------------------------- C11 ---------------------------------- *)
RECURSIVE Sum(_)
Sum(s) == IF s = << >> THEN 0 ELSE Head(s) + Sum(Tail(s))

\* C11: for a policy the data model admits (max_attempts >= 1, a
\* non-negative delay), in every state of the run and whatever the searches
\* returned, each completed sleep lasted exactly retry_delay, the time slept
\* so far is at most (max_attempts - 1) * retry_delay, and once max_attempts
\* searches have been made the last of the searches and sleeps is a search.
C11_FixedDelayBoundedWait ==
    (args.max_attempts >= 1 /\ ValidDelay) =>
        /\ \A i \in 1..Len(sleeps) : sleeps[i] = args.retry_delay
        /\ Len(sleeps) <= args.max_attempts - 1
        /\ Sum(sleeps) <= (args.max_attempts - 1) * args.retry_delay
        /\ Len(sleeps) = Count(events, "sleep")
        /\ Count(events, "search") >= args.max_attempts =>
               SearchSleep[Len(SearchSleep)] = "search"

\* all three attempts used, a match among none of the first two, and the
\* whole allowance of two sleeps of 2 slept
C11_Witness ==
    /\ pc = "done"
    /\ args.max_attempts = 3
    /\ args.retry_delay = 2
    /\ outs = << "empty", "fail", "match" >>
    /\ Sum(sleeps) = 4

(* -------------------------------- C12 ---------------------------------- *)
\* C12: at most one download is started in a run; a download has been
\* started, or is the very next step, exactly when some search has returned
\* a non-empty result; once it has been started it is the last of the run's
\* searches, sleeps and downloads in every later state; and when
\* download_file has reported failure the function has returned False with
\* no further attempt made.
C12_OneDownloadNoRetry ==
    /\ Count(events, "download") <= 1
    /\ "match" \in Range(outs) <=>
           (pc = "download_file" \/ "download" \in Range(events))
    /\ "download" \in Range(events) =>
           /\ Control[Len(Control)] = "download"
           /\ outs[Len(outs)] = "match"
           /\ Count(outs, "match") = 1
           /\ Count(events, "search") = Len(outs)
    /\ message.kind = "DownloadError" =>
           /\ pc \in {"exit", "done"}
           /\ success = "False"
           /\ pc = "done" => exit_status = 1

\* a download that failed on its first attempt of three and was not retried
C12_Witness ==
    /\ pc = "done"
    /\ args.max_attempts = 3
    /\ outs = << "match" >>
    /\ message.kind = "DownloadError"
    /\ Count(events, "download") = 1
    /\ exit_status = 1

(* -------------------------------- C13 ---------------------------------- *)
\* lines 165-211 as a function again, now with the listing of line 202: the
\* searches, listings, sleeps and download the loop makes for the outcomes o
\* when the verbose flag is v
RECURSIVE LoopEvents(_, _, _, _)
LoopEvents(o, a, n, v) ==
    IF ~InRange(a, n) \/ o = << >> THEN << >>
    ELSE IF Head(o) = "match" THEN << "search", "download" >>
    ELSE IF Head(o) = "empty"
      THEN << "search" >>
             \o (IF v THEN << "list" >> ELSE << >>)
             \o (IF ElseWaits(a, n) THEN << "sleep" >> ELSE << >>)
             \o LoopEvents(Tail(o), a + 1, n, v)
      ELSE << "search" >>
             \o (IF ExceptWaits(a, n) THEN << "sleep" >> ELSE << >>)
             \o LoopEvents(Tail(o), a + 1, n, v)

ControlOf(ev) == Filter(ev, {"search", "sleep", "sleep_error", "download"})

\* C13: when search_and_download has returned (non-negative delay), the
\* calls it made are those of the loop for its outcome sequence and its
\* verbose flag, whichever way each listing ended; and its searches, sleeps
\* and download are those the loop makes for the same outcomes with the
\* flag on and with the flag off.  Listings occur only with the flag on,
\* and without a match the result is failure under either flag.
C13_ListingIsObservationOnly ==
    (Finished /\ ValidDelay) =>
        /\ events = LoopEvents(outs, 0, args.max_attempts, args.verbose)
        /\ \A v \in BOOLEAN :
               Control = ControlOf(LoopEvents(outs, 0, args.max_attempts, v))
        /\ ~args.verbose => "list" \notin Range(events)
        /\ "match" \notin Range(outs) => success = "False"

\* a verbose run that listed the folder after an empty search, then slept,
\* searched again and found the file
C13_Witness ==
    /\ Finished
    /\ ValidDelay
    /\ args.verbose
    /\ events = << "search", "list", "sleep", "search", "download" >>

(* -------------------------------- C14 ---------------------------------- *)
\* C14: the file handed to download_file is the first element of the search
\* result, as the index ordered it; the content streamed, and whatever of
\* it reaches the destination, is that file's.
C14_FirstResultIsDownloaded ==
    (pc = "download_file" \/ "download" \in Range(events)) =>
        /\ file_id = files[1]
        /\ "download" \in Range(events) =>
               remote = Content(files[1], Len(remote))
        /\ dest # dest0 =>
               IsPrefix(dest.data, Content(files[1], Len(remote)))

\* two files matched, the index put the one with the larger id first, and
\* its bytes are what the destination holds after a successful run
C14_Witness ==
    /\ pc = "done"
    /\ exit_status = 0
    /\ files = << 2, 1 >>
    /\ dest.data = << 21, 22, 23 >>

(* -------------------------------- C15 ---------------------------------- *)
\* C15: when download_file has ended, with success or with failure, and no
\* byte was accumulated from the stream, the destination is as it was
\* before the run: not created, not overwritten.
C15_NoFileWithoutBytes ==
    (message.kind \in {"Success", "DownloadError"} /\ fh = << >>) =>
        dest = dest0

(* -------------------------------- C16 ---------------------------------- *)
\* C16: every run ends, with an exit status of the process; on the way the
\* loop makes at most max_attempts searches and the chunk loop is entered
\* only while the stream has neither completed nor raised, each chunk
\* bringing the buffer closer to the end of the content.
C16_Terminates ==
    /\ [](/\ Len(outs) <= (IF args.max_attempts > 0
                             THEN args.max_attempts ELSE 0)
          /\ attempt <= (IF args.max_attempts > 0
                           THEN args.max_attempts ELSE 0)
          /\ pc = "next_chunk" => ~done /\ ~stream_error
          /\ Len(chunks) <= Len(remote) + 1)
    /\ <>(pc = "done" /\ exit_status \in {0, 1, 2})

\* a run that used all three attempts and two chunks and then ended
C16_Witness ==
    /\ pc = "done"
    /\ Len(outs) = 3
    /\ Len(chunks) = 2
    /\ exit_status = 0

(* -------------------------------- C17 ---------------------------------- *)
\* C17: with max_attempts <= 0 on an accepted command line, no search,
\* listing, sleep or download is ever made and the destination is never
\* touched; search_and_download, when reached, returns False reporting the
\* file not found after max_attempts attempts; the process ends with
\* status 1.
C17_NonPositiveAttempts ==
    (argv_kind = "ok" /\ args.max_attempts <= 0) =>
        /\ events = << >>
        /\ sleeps = << >>
        /\ outs = << >>
        /\ opens = 0
        /\ writes = 0
        /\ dest = dest0
        /\ pc \notin {"search", "download_file", "next_chunk", "open_output",
                      "write_output", "sleep_else", "sleep_except",
                      "list_folder_files"}
        /\ Finished =>
             /\ success = "False"
             /\ message = [kind |-> "NotFound",
                           attempts |-> args.max_attempts]
        /\ pc = "done" => exit_status = 1

\* --max-attempts -1 with everything else in order: the function returned
\* at once and the process exited with 1
C17_Witness ==
    /\ pc = "done"
    /\ args.max_attempts = 0 - 1
    /\ Finished
    /\ exit_via = "sys.exit"
    /\ exit_status = 1

====
